---- MODULE Spec2Model ----
(***************************************************************************)
(* State-machine model of the rate-limit client code of                    *)
(* python_examples/rate_limit_test.py (test_rate_limiting,                 *)
(* test_rate_limit_recovery, test_exempt_endpoints,                        *)
(* demonstrate_backoff_strategy) and of the retry loop of                  *)
(* python_examples/error_handling.py (APIClient.get, example_safe_request).*)
(*                                                                         *)
(* The remote service and the transport are the environment: every         *)
(* requests.get call draws its result from Responses.  The program is      *)
(* single-threaded, so exactly one function runs at a time; fn names it    *)
(* and pc is the position inside it.  One action is one loop iteration or  *)
(* one straight-line block of the function.                                *)
(*                                                                         *)
(* Further specifications run the retry loops with other values of         *)
(* max_retries, the burst and recovery tests against a model of the        *)
(* service's first rate-limit tier, and main() of rate_limit_test.py.      *)
(***************************************************************************)
EXTENDS Integers, Sequences, FiniteSets, TLC

VARIABLES
    fn,            \* the running function, "idle" between calls
    pc,            \* position inside fn
    i,             \* loop variable i (index of the current or last iteration)
    successful,    \* local counter successful
    rate_limited,  \* local counter rate_limited (test_rate_limiting)
    errors,        \* local counter errors (test_rate_limiting)
    endpoint,      \* index into exempt_endpoints (test_exempt_endpoints)
    attempt,       \* loop variable attempt (current or last iteration)
    retry_delay,   \* local retry_delay (example_safe_request)
    max_retries,   \* local max_retries of a retry loop, 0 before it is set
    remaining,     \* loop variable remaining of the wait loop (recovery)
    raised,        \* exception that left fn uncaught, "none" otherwise
    calls,         \* observation: requests issued by fn so far
    last,          \* observation: result of the most recent request (burst,
                   \*   retry loops, recovery)
    seen,          \* observation: classes of the results of the 50 requests
                   \*   to the current exempt endpoint, or of the 35
                   \*   discarded requests of the recovery test
    paced,         \* observation: the latest burst iteration reached its sleep
    log,           \* observation: requests, prints and sleeps of a retry loop
    verdicts,      \* observation: verdict lines printed by fn, in order
    remote,        \* environment: how the service answers ("any": freely)
    prior,         \* environment: requests made before fn began that the
                   \*   service still counts
    clock,         \* environment: tenths of a second since fn began
    quiet,         \* environment: tenths of a second since fn's latest request
    mainpc,        \* position inside main(), "none" when main is not running
    failures,      \* observation: phases of main whose verdict was a failure
    runs,          \* observation: the verdict lines of each finished run of
                   \*   test_exempt_endpoints when it is run repeatedly
    passed,        \* IntegrationTest.passed
    failed,        \* IntegrationTest.failed
    results,       \* IntegrationTest.results
    stats,         \* DataPipeline.stats
    returned       \* observation: what the latest fetch of the DataPipeline
                   \*   did and gave back

vars == <<fn, pc, i, successful, rate_limited, errors, endpoint, attempt,
          retry_delay, max_retries, remaining, raised, calls, last, seen,
          paced, log, verdicts, remote, prior, clock, quiet, mainpc,
          failures, runs, passed, failed, results, stats, returned>>

\* the locals and observations of the running function, the environment's
\* variables, the objects of integration_test.py and service_integration.py,
\* and the variables of the callers (main(), repeated runs) together with
\* the objects, which no function of rate_limit_test.py touches
lvars == <<fn, pc, i, successful, rate_limited, errors, endpoint, attempt,
           retry_delay, max_retries, remaining, raised, calls, last, seen,
           paced, log, verdicts>>

rvars == <<remote, prior, clock, quiet>>

ovars == <<passed, failed, results, stats, returned>>

mvars == <<mainpc, failures, runs, ovars>>

(***************************************************************************)
(* Results of one requests.get call.                                       *)
(*   exc    "none" when a response arrived, else the exception raised      *)
(*   status the response's status_code (0 when none arrived)               *)
(*   body   "full"    a JSON object carrying the fields the client reads   *)
(*          "object"  a JSON object without them                           *)
(*          "notjson" content that response.json() cannot parse            *)
(*          "empty"   no content at all                                    *)
(***************************************************************************)
Resp(s, b) == [exc |-> "none", status |-> s, body |-> b]

Raise(e) == [exc |-> e, status |-> 0, body |-> "none"]

NoResult == [exc |-> "none", status |-> 0, body |-> "none"]

Responses ==
    { Resp(200, "full"), Resp(200, "object"), Resp(200, "notjson"),
      Resp(201, "full"),
      Resp(429, "full"), Resp(429, "object"), Resp(429, "notjson"),
      Resp(500, "full"), Resp(500, "empty"),
      Raise("ConnectionError"), Raise("Timeout") }

\* response.json() returns (it raises a ValueError subclass otherwise)
JsonParses(r) == r.body \in {"full", "object"}

\* the parsed body has the key the caller indexes (data['count'])
HasCount(r) == r.body = "full"

\* observation class of a result, by what arrived
ClassOf(r) ==
    IF r.exc # "none" THEN "exception"
    ELSE IF r.status = 200 THEN "200"
    ELSE IF r.status = 429 THEN "429"
    ELSE "other"

(***************************************************************************)
(* Program constants.                                                      *)
(***************************************************************************)
BurstCount == 35

ExemptCount == 50

NumExempt == 3

BackoffMaxRetries == 5

BackoffBaseDelay == 1

RetryMaxRetries == 3

RetryInitialDelay == 1

RecoveryWait == 65

RecoveryStep == 5

NumExamples == 4

RECURSIVE Pow2(_)
Pow2(n) == IF n = 0 THEN 1 ELSE 2 * Pow2(n - 1)

\* mutant of Catches: no loop has a try/except
CatchesNothing(f) == FALSE

\* mutant of Catches: the exemption loop has no except clause
CatchesAllButExempt(f) ==
    f \in {"test_rate_limiting", "demonstrate_backoff_strategy",
           "example_safe_request"}

\* mutant of Catches: the burst loop has no try/except of its own
CatchesRetryLoopsOnly(f) ==
    f \in {"test_exempt_endpoints", "demonstrate_backoff_strategy",
           "example_safe_request"}

(***************************************************************************)
(* Which functions wrap their requests in a try/except that catches the    *)
(* request's exception: all but test_rate_limit_recovery.                  *)
(***************************************************************************)
Catches(f) ==
    f \in {"test_rate_limiting", "test_exempt_endpoints",
           "demonstrate_backoff_strategy", "example_safe_request"}

Locals0 ==
    /\ i = 0 /\ successful = 0 /\ rate_limited = 0 /\ errors = 0
    /\ endpoint = 0 /\ attempt = 0 /\ retry_delay = 0 /\ remaining = 0
    /\ max_retries = 0
    /\ raised = "none" /\ calls = 0 /\ last = NoResult /\ seen = {}
    /\ paced = TRUE /\ log = <<>> /\ verdicts = <<>>

Init ==
    /\ fn = "idle" /\ pc = "idle" /\ Locals0
    /\ remote = "any" /\ prior = 0 /\ clock = 0 /\ quiet = 0
    /\ mainpc = "none" /\ failures = {} /\ runs = <<>>
    /\ passed = 0 /\ failed = 0 /\ results = <<>>
    /\ stats = [requests |-> 0, successful |-> 0, failed |-> 0,
                records_processed |-> 0]
    /\ returned = [what |-> "none", outcome |-> "none", records |-> 0,
                   before |-> stats]

\* a function's frame is created: every local and observation starts
\* afresh, max_retries with the value n the function's first lines give it
Fresh(f, p, n) ==
    /\ fn' = f /\ pc' = p
    /\ i' = 0 /\ successful' = 0 /\ rate_limited' = 0 /\ errors' = 0
    /\ endpoint' = 0 /\ attempt' = 0 /\ retry_delay' = 0 /\ remaining' = 0
    /\ max_retries' = n
    /\ raised' = "none" /\ calls' = 0 /\ last' = NoResult /\ seen' = {}
    /\ paced' = TRUE /\ log' = <<>> /\ verdicts' = <<>>

Frame(f, p, n) == fn = "idle" /\ Fresh(f, p, n)

\* a function is called on its own, outside main()
EnterWith(f, p, n) ==
    /\ mainpc = "none"
    /\ Frame(f, p, n)
    /\ UNCHANGED <<rvars, mvars>>

Enter(f, p) == EnterWith(f, p, 0)

\* the function returns (or its exception leaves it): its frame is gone
Unwind ==
    /\ fn # "idle" /\ pc \in {"done", "raised"}
    /\ Fresh("idle", "idle", 0)

\* a function called on its own returns (or its exception reaches the top
\* level)
Return ==
    /\ mainpc = "none"
    /\ Unwind
    /\ UNCHANGED <<rvars, mvars>>

(***************************************************************************)
(* test_rate_limiting                                                      *)
(***************************************************************************)
\* What one iteration of the burst loop adds to the three counters and
\* whether it reaches time.sleep(0.1).  On 429 the counter is incremented
\* before response.json() is called, and a body that does not parse raises
\* into the except clause, which increments errors as well.
BurstTally(r) ==
    IF r.exc # "none"
      THEN [s |-> 0, t |-> 0, e |-> 1, sleep |-> FALSE]
    ELSE IF r.status = 200
      THEN [s |-> 1, t |-> 0, e |-> 0, sleep |-> TRUE]
    ELSE IF r.status = 429
      THEN IF JsonParses(r)
             THEN [s |-> 0, t |-> 1, e |-> 0, sleep |-> TRUE]
             ELSE [s |-> 0, t |-> 1, e |-> 1, sleep |-> FALSE]
    ELSE [s |-> 0, t |-> 0, e |-> 1, sleep |-> TRUE]

StartBurst == Enter("test_rate_limiting", "loop")

\* one iteration of `for i in range(35)`, its request having the result r
BurstStep(r) ==
    /\ fn = "test_rate_limiting" /\ pc = "loop"
    /\ calls' = calls + 1
    /\ last' = r
    /\ IF r.exc # "none" /\ ~Catches(fn)
         THEN /\ pc' = "raised" /\ raised' = r.exc
              /\ UNCHANGED <<i, successful, rate_limited, errors, paced>>
         ELSE /\ successful' = successful + BurstTally(r).s
              /\ rate_limited' = rate_limited + BurstTally(r).t
              /\ errors' = errors + BurstTally(r).e
              /\ paced' = BurstTally(r).sleep
              /\ i' = IF i + 1 < BurstCount THEN i + 1 ELSE i
              /\ pc' = IF i + 1 < BurstCount THEN "loop" ELSE "summary"
              /\ raised' = raised
    /\ UNCHANGED <<fn, max_retries, endpoint, attempt, retry_delay, remaining,
                   seen, log, verdicts>>

BurstProbe ==
    /\ \E r \in Responses : BurstStep(r)
    /\ UNCHANGED <<rvars, mvars>>

\* mutant of BurstVerdict: a handful of 429s is not taken as rate limiting
BurstVerdictMany(t) == IF t > 5 THEN "working" ELSE "not_detected"

\* the verdict printed after the summary
BurstVerdict(t) == IF t > 0 THEN "working" ELSE "not_detected"

BurstSummary ==
    /\ fn = "test_rate_limiting" /\ pc = "summary"
    /\ verdicts' = Append(verdicts, BurstVerdict(rate_limited))
    /\ pc' = "done"
    /\ UNCHANGED <<fn, max_retries, i, successful, rate_limited, errors,
                   endpoint, attempt, retry_delay, remaining, raised, calls,
                   last, seen, paced, log>>
    /\ UNCHANGED <<rvars, mvars>>

(***************************************************************************)
(* test_exempt_endpoints                                                   *)
(***************************************************************************)
\* the inner loop counts a request only when a response arrived with 200;
\* the bare except swallows every exception
ExemptCounts(r) == r.exc = "none" /\ r.status = 200

\* mutant of ExemptVerdict: any success passes the endpoint
ExemptVerdictAnySuccess(n) ==
    IF n > 0 THEN "not_rate_limited" ELSE "may_be_rate_limited"

\* the line printed after an endpoint's 50 requests
ExemptVerdict(n) ==
    IF n = ExemptCount THEN "not_rate_limited" ELSE "may_be_rate_limited"

StartExempt == Enter("test_exempt_endpoints", "loop")

\* one iteration of `for i in range(50)` for exempt_endpoints[endpoint]
ExemptStep(r) ==
    /\ fn = "test_exempt_endpoints" /\ pc = "loop"
    /\ calls' = calls + 1
    /\ seen' = seen \cup {ClassOf(r)}
    /\ IF r.exc # "none" /\ ~Catches(fn)
         THEN /\ pc' = "raised" /\ raised' = r.exc
              /\ UNCHANGED <<i, successful>>
         ELSE /\ successful' = IF ExemptCounts(r) THEN successful + 1
                                                  ELSE successful
              /\ i' = IF i + 1 < ExemptCount THEN i + 1 ELSE i
              /\ pc' = IF i + 1 < ExemptCount THEN "loop" ELSE "report"
              /\ raised' = raised
    /\ UNCHANGED <<fn, max_retries, rate_limited, errors, endpoint, attempt,
                   retry_delay, remaining, last, paced, log, verdicts>>

ExemptProbe ==
    /\ \E r \in Responses : ExemptStep(r)
    /\ UNCHANGED <<rvars, mvars>>

\* mutant of StartCount: the count of the previous endpoint is kept
StartCountCarried(n) == n

\* `successful = 0` at the top of an endpoint's iteration, n being the
\* count the previous endpoint's loop left
StartCount(n) == 0

\* the two prints after the inner loop, then the next endpoint (whose
\* iteration starts with successful = 0) or the end of the function
ExemptReport ==
    /\ fn = "test_exempt_endpoints" /\ pc = "report"
    /\ verdicts' = Append(verdicts, ExemptVerdict(successful))
    /\ endpoint' = endpoint + 1
    /\ IF endpoint + 1 < NumExempt
         THEN /\ pc' = "loop" /\ successful' = StartCount(successful)
              /\ i' = 0 /\ seen' = {}
         ELSE pc' = "done" /\ UNCHANGED <<successful, i, seen>>
    /\ UNCHANGED <<fn, max_retries, rate_limited, errors, attempt,
                   retry_delay, remaining, raised, calls, last, paced, log>>
    /\ UNCHANGED <<rvars, mvars>>

(***************************************************************************)
(* Entries of log.                                                         *)
(***************************************************************************)
Get(a, r) == [ev |-> "get", attempt |-> a, res |-> r, what |-> "get",
              detail |-> "none", secs |-> 0]

Say(a, w, d) == [ev |-> "print", attempt |-> a, res |-> NoResult, what |-> w,
                 detail |-> d, secs |-> 0]

Sleep(a, n) == [ev |-> "sleep", attempt |-> a, res |-> NoResult,
                what |-> "sleep", detail |-> "none", secs |-> n]

(***************************************************************************)
(* demonstrate_backoff_strategy                                            *)
(***************************************************************************)
\* mutant of BackoffDelay: the delay grows linearly
BackoffDelayLinear(a) == BackoffBaseDelay * (a + 1)

\* delay = base_delay * (2 ** attempt)
BackoffDelay(a) == BackoffBaseDelay * Pow2(a)

\* mutant of HasNextAttempt: the range is one too long
HasNextAttemptOffByOne(a, n) == a < n

\* `for attempt in range(max_retries)` has another iteration after a
HasNextAttempt(a, n) == a + 1 < n

\* mutant of SleepsBeforeNext: the sleep is not guarded
SleepsAlways(a, n) == TRUE

\* `if attempt < max_retries - 1`: attempt a is not the last one, so the
\* loop sleeps before the next
SleepsBeforeNext(a, n) == a < n - 1

\* mutant of BackoffBreaks: the break is missing
BackoffBreaksNever(r) == FALSE

\* the loop body reaches `break`: status 200, and response.json() and
\* data['count'] in front of the break both went through
BackoffBreaks(r) ==
    r.exc = "none" /\ r.status = 200 /\ JsonParses(r) /\ HasCount(r)

\* What the loop body does with attempt a's result r after the request:
\* the prints and the sleep, in order, and whether it reaches `break`.
\* A 200 prints Success before the body is read; response.json() or
\* data['count'] failing lands in the except clause, which only prints.
\* A status other than 200 and 429 matches no branch.
BackoffBody(a, n, r) ==
    IF r.exc # "none"
      THEN [out |-> <<Say(a, "error", r.exc)>>, brk |-> FALSE]
    ELSE IF r.status = 200
      THEN IF ~JsonParses(r)
             THEN [out |-> <<Say(a, "success", "none"),
                             Say(a, "error", "ValueError")>>, brk |-> FALSE]
           ELSE IF ~HasCount(r)
             THEN [out |-> <<Say(a, "success", "none"),
                             Say(a, "error", "KeyError")>>, brk |-> FALSE]
           ELSE [out |-> <<Say(a, "success", "none"),
                           Say(a, "received", "none")>>,
                 brk |-> BackoffBreaks(r)]
    ELSE IF r.status = 429
      THEN IF SleepsBeforeNext(a, n)
             THEN [out |-> <<Say(a, "rate_limited", "none"),
                             Say(a, "waiting", "none"),
                             Sleep(a, BackoffDelay(a))>>, brk |-> FALSE]
             ELSE [out |-> <<Say(a, "max_retries", "none")>>, brk |-> FALSE]
    ELSE [out |-> <<>>, brk |-> FALSE]

StartBackoff ==
    EnterWith("demonstrate_backoff_strategy", "loop", BackoffMaxRetries)

\* demonstrate_backoff_strategy with its local max_retries set to any value
\* from 1 up to the program's 5
StartBackoffAny ==
    \E n \in 1..BackoffMaxRetries :
        EnterWith("demonstrate_backoff_strategy", "loop", n)

\* one iteration of `for attempt in range(max_retries)`
BackoffAttempt ==
    /\ fn = "demonstrate_backoff_strategy" /\ pc = "loop"
    /\ \E r \in Responses :
         LET b == BackoffBody(attempt, max_retries, r) IN
         /\ calls' = calls + 1
         /\ last' = r
         /\ IF r.exc # "none" /\ ~Catches(fn)
              THEN /\ pc' = "raised" /\ raised' = r.exc
                   /\ log' = Append(log, Get(attempt, r))
                   /\ UNCHANGED attempt
              ELSE /\ log' = log \o <<Get(attempt, r)>> \o b.out
                   /\ raised' = raised
                   /\ IF ~b.brk /\ HasNextAttempt(attempt, max_retries)
                        THEN attempt' = attempt + 1 /\ pc' = "loop"
                        ELSE attempt' = attempt /\ pc' = "done"
    /\ UNCHANGED <<fn, max_retries, i, successful, rate_limited, errors,
                   endpoint, retry_delay, remaining, seen, paced, verdicts>>
    /\ UNCHANGED <<rvars, mvars>>

(***************************************************************************)
(* error_handling.py: APIClient.get and example_safe_request               *)
(***************************************************************************)
\* APIClient.get: returns the parsed body (ok) or raises Exception (err says
\* which).  A status >= 400 raises after reading the error body, which is
\* skipped when the response has no content; a body that does not parse
\* raises from response.json() on either path.
ClientGet(r) ==
    IF r.exc = "Timeout" THEN [ok |-> FALSE, err |-> "timeout"]
    ELSE IF r.exc = "ConnectionError" THEN [ok |-> FALSE, err |-> "connect"]
    ELSE IF r.exc # "none" THEN [ok |-> FALSE, err |-> "request"]
    ELSE IF r.status >= 400
      THEN IF r.body = "empty" \/ JsonParses(r)
             THEN [ok |-> FALSE, err |-> "http"]
             ELSE [ok |-> FALSE, err |-> "bad_json"]
    ELSE IF JsonParses(r) THEN [ok |-> TRUE, err |-> "none"]
    ELSE [ok |-> FALSE, err |-> "bad_json"]

\* mutant of NextDelay: the delay is tripled
NextDelayTripled(d) == d * 3

\* retry_delay *= 2
NextDelay(d) == d * 2

\* What the try/except of the retry loop does with attempt a's result r,
\* retry_delay being d: prints and sleep in order, whether it reaches
\* `break`, and the new retry_delay.  "Success on attempt" is printed before
\* data['count'] is read; a missing key lands in the except clause.
RetryBody(a, n, d, r) ==
    LET g == ClientGet(r)
        e == IF g.ok THEN "KeyError" ELSE g.err
        pre == IF g.ok THEN <<Say(a, "success", "none")>> ELSE <<>>
    IN  IF g.ok /\ HasCount(r)
          THEN [out |-> <<Say(a, "success", "none"),
                          Say(a, "received", "none")>>,
                brk |-> TRUE, delay |-> d]
        ELSE IF SleepsBeforeNext(a, n)
          THEN [out |-> pre \o <<Say(a, "failed", e), Say(a, "retrying", "none"),
                                 Sleep(a, d)>>,
                brk |-> FALSE, delay |-> NextDelay(d)]
        ELSE [out |-> pre \o <<Say(a, "all_failed", e)>>,
              brk |-> FALSE, delay |-> d]

StartSafeRequest == Enter("example_safe_request", "examples")

\* examples 1 to 4: one client.get each inside its own try/except, which
\* prints either way; after the fourth, max_retries and retry_delay are set
ExampleRequestWith(n) ==
    /\ fn = "example_safe_request" /\ pc = "examples"
    /\ \E r \in Responses :
         /\ calls' = calls + 1
         /\ last' = r
    /\ IF i + 1 < NumExamples
         THEN /\ i' = i + 1 /\ pc' = "examples"
              /\ UNCHANGED <<retry_delay, max_retries>>
         ELSE /\ i' = i /\ pc' = "loop"
              /\ max_retries' = n /\ retry_delay' = RetryInitialDelay
    /\ UNCHANGED <<fn, successful, rate_limited, errors, endpoint, attempt,
                   remaining, raised, seen, paced, log, verdicts>>
    /\ UNCHANGED <<rvars, mvars>>

ExampleRequest == ExampleRequestWith(RetryMaxRetries)

\* the same with max_retries set to any value from 1 up to the program's 3
ExampleRequestAny == \E n \in 1..RetryMaxRetries : ExampleRequestWith(n)

\* one iteration of `for attempt in range(max_retries)`
RetryAttempt ==
    /\ fn = "example_safe_request" /\ pc = "loop"
    /\ \E r \in Responses :
         LET b == RetryBody(attempt, max_retries, retry_delay, r) IN
         /\ calls' = calls + 1
         /\ last' = r
         /\ IF ~ClientGet(r).ok /\ ~Catches(fn)
              THEN /\ pc' = "raised" /\ raised' = "Exception"
                   /\ log' = Append(log, Get(attempt, r))
                   /\ UNCHANGED <<attempt, retry_delay>>
              ELSE /\ log' = log \o <<Get(attempt, r)>> \o b.out
                   /\ retry_delay' = b.delay
                   /\ raised' = raised
                   /\ IF ~b.brk /\ HasNextAttempt(attempt, max_retries)
                        THEN attempt' = attempt + 1 /\ pc' = "loop"
                        ELSE attempt' = attempt /\ pc' = "done"
    /\ UNCHANGED <<fn, max_retries, i, successful, rate_limited, errors,
                   endpoint, remaining, seen, paced, verdicts>>
    /\ UNCHANGED <<rvars, mvars>>

(***************************************************************************)
(* test_rate_limit_recovery                                                *)
(***************************************************************************)
\* the branch taken on the response of line 83
RecoveryLimited(r) == r.status = 429

\* mutant of RecoveryVerdict: the two lines are swapped
RecoveryVerdictSwapped(r) ==
    IF r.status = 200 THEN "still_limited" ELSE "reset"

\* the line printed about the response of line 95
RecoveryVerdict(r) == IF r.status = 200 THEN "reset" ELSE "still_limited"

\* mutant of WaitContinues: the wait loop stops one iteration early
WaitContinuesShort(rem) == rem - RecoveryStep > RecoveryStep

\* range(65, 0, -5) has a further element after rem
WaitContinues(rem) == rem - RecoveryStep > 0

StartRecovery == Enter("test_rate_limit_recovery", "saturate")

\* one iteration of `for i in range(35)`: the response r is discarded
SaturateStep(r) ==
    /\ fn = "test_rate_limit_recovery" /\ pc = "saturate"
    /\ calls' = calls + 1
    /\ last' = r
    /\ seen' = seen \cup {ClassOf(r)}
    /\ IF r.exc # "none" /\ ~Catches(fn)
         THEN pc' = "raised" /\ raised' = r.exc /\ i' = i
         ELSE /\ raised' = raised
              /\ i' = IF i + 1 < BurstCount THEN i + 1 ELSE i
              /\ pc' = IF i + 1 < BurstCount THEN "saturate" ELSE "check"
    /\ UNCHANGED <<fn, max_retries, successful, rate_limited, errors,
                   endpoint, attempt, retry_delay, remaining, paced, log,
                   verdicts>>

RecoverySaturate ==
    /\ \E r \in Responses : SaturateStep(r)
    /\ UNCHANGED <<rvars, mvars>>

\* the request of line 83, answered r, and the branch on its status
CheckStep(r) ==
    /\ fn = "test_rate_limit_recovery" /\ pc = "check"
    /\ calls' = calls + 1
    /\ last' = r
    /\ log' = Append(log, Get(0, r))
    /\ IF r.exc # "none" /\ ~Catches(fn)
         THEN /\ pc' = "raised" /\ raised' = r.exc
              /\ UNCHANGED <<remaining, verdicts>>
         ELSE /\ raised' = raised
              /\ IF RecoveryLimited(r)
                   THEN /\ pc' = "wait" /\ remaining' = RecoveryWait
                        /\ verdicts' = Append(verdicts, "limited_as_expected")
                   ELSE /\ pc' = "done" /\ remaining' = remaining
                        /\ verdicts' = Append(verdicts, "not_limited_initially")
    /\ UNCHANGED <<fn, max_retries, i, successful, rate_limited, errors,
                   endpoint, attempt, retry_delay, seen, paced>>

RecoveryCheck ==
    /\ \E r \in Responses : CheckStep(r)
    /\ UNCHANGED <<rvars, mvars>>

\* one iteration of `for remaining in range(65, 0, -5)`: print, sleep(5)
WaitStep ==
    /\ fn = "test_rate_limit_recovery" /\ pc = "wait"
    /\ log' = Append(log, Sleep(0, RecoveryStep))
    /\ IF WaitContinues(remaining)
         THEN remaining' = remaining - RecoveryStep /\ pc' = "wait"
         ELSE remaining' = remaining /\ pc' = "verify"
    /\ UNCHANGED <<fn, max_retries, i, successful, rate_limited, errors,
                   endpoint, attempt, retry_delay, raised, calls, last, seen,
                   paced, verdicts>>

RecoveryWaitStep ==
    /\ WaitStep
    /\ UNCHANGED <<rvars, mvars>>

\* the request of line 95, answered r, and the line printed about it
VerifyStep(r) ==
    /\ fn = "test_rate_limit_recovery" /\ pc = "verify"
    /\ calls' = calls + 1
    /\ last' = r
    /\ log' = Append(log, Get(1, r))
    /\ IF r.exc # "none" /\ ~Catches(fn)
         THEN pc' = "raised" /\ raised' = r.exc /\ UNCHANGED verdicts
         ELSE /\ raised' = raised /\ pc' = "done"
              /\ verdicts' = Append(verdicts, RecoveryVerdict(r))
    /\ UNCHANGED <<fn, max_retries, i, successful, rate_limited, errors,
                   endpoint, attempt, retry_delay, remaining, seen, paced>>

RecoveryVerify ==
    /\ \E r \in Responses : VerifyStep(r)
    /\ UNCHANGED <<rvars, mvars>>

(***************************************************************************)
(* The service, as the docstring of test_rate_limiting describes its first *)
(* tier: 30 requests per minute, 429 beyond.  A request is answered 429    *)
(* when 30 or more requests lie in the 60 seconds before it.  Time is      *)
(* counted in tenths of a second.  The requests of the running function    *)
(* all lie inside the window while the function is younger than the        *)
(* window; they have all left it once the function has been quiet for a    *)
(* whole window.  Requests made before the function began (prior) may or   *)
(* may not have left it.  An "unlimited" service never answers 429.        *)
(***************************************************************************)
SoftLimit == 30

Window == 600

PaceTenths == 1

MaxLatency == 1

MaxPrior == 2

Min(a, b) == IF a < b THEN a ELSE b

Tenths(seconds) == 10 * seconds

RemoteModes == {"soft_limit", "unlimited"}

\* the statuses the service may give the next request
RemoteStatuses ==
    IF remote = "unlimited" THEN {200}
    ELSE IF clock < Window
      THEN IF calls >= SoftLimit THEN {429}
           ELSE IF prior + calls >= SoftLimit THEN {200, 429}
           ELSE {200}
    ELSE IF quiet >= Window THEN {200}
    ELSE {200, 429}

\* the results of the next request: no transport failure, any body
RemoteAnswers ==
    {r \in Responses : r.exc = "none" /\ r.status \in RemoteStatuses}

\* a request was served and d tenths have passed since it was sent
Served(d) ==
    /\ clock' = Min(Window, clock + d)
    /\ quiet' = Min(Window, d)
    /\ UNCHANGED <<remote, prior>>

\* d tenths pass without a request
Passed(d) ==
    /\ clock' = Min(Window, clock + d)
    /\ quiet' = Min(Window, quiet + d)
    /\ UNCHANGED <<remote, prior>>

\* a function is called against a service of either mode that has seen up
\* to MaxPrior requests lately
Meet ==
    /\ \E m \in RemoteModes, k \in 0..MaxPrior : remote' = m /\ prior' = k
    /\ clock' = 0 /\ quiet' = 0

Part ==
    /\ remote' = "any" /\ prior' = 0 /\ clock' = 0 /\ quiet' = 0

StartBurstRemote ==
    /\ mainpc = "none"
    /\ Frame("test_rate_limiting", "loop", 0)
    /\ Meet
    /\ UNCHANGED mvars

\* a burst iteration: the request takes up to MaxLatency tenths, then the
\* iteration sleeps 0.1 s when it reaches its sleep
BurstProbeRemote ==
    /\ \E r \in RemoteAnswers, l \in 0..MaxLatency :
         /\ BurstStep(r)
         /\ Served(l + IF BurstTally(r).sleep THEN PaceTenths ELSE 0)
    /\ UNCHANGED mvars

StartRecoveryRemote ==
    /\ mainpc = "none"
    /\ Frame("test_rate_limit_recovery", "saturate", 0)
    /\ Meet
    /\ UNCHANGED mvars

SaturateRemote ==
    /\ \E r \in RemoteAnswers, l \in 0..MaxLatency :
         SaturateStep(r) /\ Served(l)
    /\ UNCHANGED mvars

CheckRemote ==
    /\ \E r \in RemoteAnswers, l \in 0..MaxLatency :
         CheckStep(r) /\ Served(l)
    /\ UNCHANGED mvars

WaitRemote ==
    /\ WaitStep
    /\ Passed(Tenths(RecoveryStep))
    /\ UNCHANGED mvars

VerifyRemote ==
    /\ \E r \in RemoteAnswers, l \in 0..MaxLatency :
         VerifyStep(r) /\ Served(l)
    /\ UNCHANGED mvars

ReturnRemote ==
    /\ Unwind
    /\ Part
    /\ UNCHANGED mvars

\* the exempt endpoints are outside both tiers: the service answers them
\* 200 whatever it has counted
ExemptAnswers == {r \in Responses : r.exc = "none" /\ r.status = 200}

ExemptRuns == 2

\* test_exempt_endpoints is run, for the first time against a service of
\* either mode, later against the same service
StartExemptRun ==
    /\ mainpc = "none" /\ Len(runs) < ExemptRuns
    /\ Frame("test_exempt_endpoints", "loop", 0)
    /\ IF runs = <<>> THEN Meet ELSE UNCHANGED rvars
    /\ UNCHANGED mvars

ExemptProbeRemote ==
    /\ \E r \in ExemptAnswers : ExemptStep(r)
    /\ UNCHANGED <<rvars, mvars>>

\* the run returns; its verdict lines are kept for comparison
ExemptRunEnds ==
    /\ fn = "test_exempt_endpoints"
    /\ Unwind
    /\ runs' = Append(runs, verdicts)
    /\ UNCHANGED <<mainpc, failures, rvars, ovars>>

(***************************************************************************)
(* rate_limit_test.main: the burst test, the exemption test and the        *)
(* backoff demonstration in this order inside one try, then the closing    *)
(* print; the except clauses print the error.  The functions return        *)
(* nothing; failures records the phases whose verdict line reported a      *)
(* failed check.                                                           *)
(***************************************************************************)
MainPhases == {"burst", "exempt", "backoff"}

\* the verdict lines of the running phase name a failed check
PhaseFailed ==
    \E k \in DOMAIN verdicts :
        verdicts[k] \in {"not_detected", "may_be_rate_limited"}

\* main() begins and calls test_rate_limiting
StartMain ==
    /\ mainpc = "none"
    /\ Frame("test_rate_limiting", "loop", 0)
    /\ mainpc' = "burst" /\ failures' = {}
    /\ UNCHANGED <<runs, rvars, ovars>>

\* the running phase returns and main calls the next one or prints "All
\* tests completed!"; an exception leaving the phase lands in main's except
MainNext ==
    /\ mainpc \in MainPhases
    /\ fn # "idle" /\ pc \in {"done", "raised"}
    /\ failures' = IF PhaseFailed THEN failures \cup {mainpc} ELSE failures
    /\ IF pc = "raised"
         THEN mainpc' = "error" /\ Fresh("idle", "idle", 0)
       ELSE IF mainpc = "burst"
         THEN /\ mainpc' = "exempt"
              /\ Fresh("test_exempt_endpoints", "loop", 0)
       ELSE IF mainpc = "exempt"
         THEN /\ mainpc' = "backoff"
              /\ Fresh("demonstrate_backoff_strategy", "loop",
                       BackoffMaxRetries)
       ELSE mainpc' = "completed" /\ Fresh("idle", "idle", 0)
    /\ UNCHANGED <<runs, rvars, ovars>>

\* main() returns
MainExit ==
    /\ mainpc \in {"completed", "error"}
    /\ mainpc' = "none" /\ failures' = {}
    /\ UNCHANGED <<fn, pc, i, successful, rate_limited, errors, endpoint,
                   attempt, retry_delay, max_retries, remaining, raised,
                   calls, last, seen, paced, log, verdicts>>
    /\ UNCHANGED <<runs, rvars, ovars>>

(***************************************************************************)
(* integration_test.py: class IntegrationTest.  Python values are a kind   *)
(* and a number: ints and bools carry their value, strings an index, None  *)
(* is alone of its kind.  == compares ints and bools by value (True == 1), *)
(* everything else by identity of kind and number.                        *)
(***************************************************************************)
PyInt(n) == [kind |-> "int", v |-> n]

PyBool(b) == [kind |-> "bool", v |-> IF b THEN 1 ELSE 0]

PyStr(k) == [kind |-> "str", v |-> k]

PyNone == [kind |-> "none", v |-> 0]

Values == {PyInt(1), PyBool(TRUE), PyBool(FALSE), PyNone}

Numeric(x) == x.kind \in {"int", "bool"}

\* actual == expected
PyEq(a, e) == IF Numeric(a) /\ Numeric(e) THEN a.v = e.v ELSE a = e

Fields == {"status", "time"}

\* the dicts handed to assert_json_field: any of the fields, each with a
\* string, a number or null
Dicts ==
    UNION {[F -> {PyStr(1), PyInt(1), PyNone}] : F \in SUBSET Fields}

\* the status codes of the responses handed to assert_status_code
StatusCodes == {200, 429}

MaxAsserts == 3

\* mutant of Tally: a failure counts as a pass as well
TallyBoth(p) == [passed |-> 1, failed |-> IF p THEN 0 ELSE 1]

\* what a result adds to the two counters (`if passed: ... else: ...`)
Tally(p) ==
    IF p THEN [passed |-> 1, failed |-> 0] ELSE [passed |-> 0, failed |-> 1]

\* assert_equals: the record is appended, then one counter is incremented
assert_equals(actual, expected) ==
    /\ Len(results) < MaxAsserts
    /\ results' = Append(results, [passed |-> PyEq(actual, expected),
                                   actual |-> actual,
                                   expected |-> expected])
    /\ passed' = passed + Tally(PyEq(actual, expected)).passed
    /\ failed' = failed + Tally(PyEq(actual, expected)).failed
    /\ UNCHANGED <<stats, returned>>
    /\ UNCHANGED <<lvars, rvars, mainpc, failures, runs>>

assert_true(condition) == assert_equals(condition, PyBool(TRUE))

assert_status_code(status_code, expected_code) ==
    assert_equals(PyInt(status_code), PyInt(expected_code))

assert_json_field(data, field, expected_value) ==
    IF field \notin DOMAIN data
      THEN assert_true(PyBool(FALSE))
    ELSE IF expected_value # PyNone
      THEN assert_equals(data[field], expected_value)
    ELSE assert_true(PyBool(TRUE))

\* print_summary: total = self.passed + self.failed
SummaryTotal == passed + failed

AssertEquals == \E a, e \in Values : assert_equals(a, e)

AssertTrue == \E c \in Values : assert_true(c)

AssertStatusCode == \E c, e \in StatusCodes : assert_status_code(c, e)

AssertJsonField ==
    \E d \in Dicts, f \in Fields, e \in Values : assert_json_field(d, f, e)

(***************************************************************************)
(* service_integration.py: class DataPipeline.  A fetch meets the result   *)
(* of session.get and, when the body is a JSON object with the key "data", *)
(* the value under that key: a list of n records, or null.                 *)
(***************************************************************************)
MaxFetches == 3

MaxRecords == 2

Fetches ==
    {[res |-> r, data |-> d, n |-> k] :
        r \in Responses, d \in {"list", "null"}, k \in 0..MaxRecords}

\* the statement of the try block at which the fetch ends: session.get,
\* raise_for_status, response.json(), the subscript ["data"], len(data), or
\* the return
FetchEnds(x) ==
    IF x.res.exc # "none" THEN "get"
    ELSE IF x.res.status >= 400 THEN "raise_for_status"
    ELSE IF ~JsonParses(x.res) THEN "json"
    ELSE IF ~HasCount(x.res) THEN "data"
    ELSE IF x.data = "null" THEN "len"
    ELSE "return"

\* fetch_users, fetch_products and fetch_orders: requests is incremented
\* first, successful after the body was read, records_processed after that
\* by len(data); whatever raises inside the try lands in the except clause,
\* which increments failed and returns []
fetch(what, x) ==
    /\ stats.requests < MaxFetches
    /\ stats' =
         [requests |-> stats.requests + 1,
          successful |-> stats.successful +
              (IF FetchEnds(x) \in {"len", "return"} THEN 1 ELSE 0),
          failed |-> stats.failed +
              (IF FetchEnds(x) # "return" THEN 1 ELSE 0),
          records_processed |-> stats.records_processed +
              (IF FetchEnds(x) = "return" THEN x.n ELSE 0)]
    /\ returned' =
         [what |-> what,
          outcome |-> IF FetchEnds(x) = "return" THEN "data" ELSE "empty",
          records |-> IF FetchEnds(x) = "return" THEN x.n ELSE 0,
          before |-> stats]
    /\ UNCHANGED <<passed, failed, results>>
    /\ UNCHANGED <<lvars, rvars, mainpc, failures, runs>>

fetch_users == \E x \in Fetches : fetch("users", x)

fetch_products == \E x \in Fetches : fetch("products", x)

fetch_orders == \E x \in Fetches : fetch("orders", x)

(***************************************************************************)
(* The two retry loops as functions of max_retries and of the results of   *)
(* their requests: the number of requests issued and the sleeps, in order. *)
(***************************************************************************)
\* the seconds of the sleeps of a piece of log, in order
SleepSecs(l) ==
    LET z == SelectSeq(l, LAMBDA e : e.ev = "sleep")
    IN  [k \in 1..Len(z) |-> z[k].secs]

\* demonstrate_backoff_strategy from attempt a on, the results being rs
RECURSIVE BackoffRun(_, _, _)
BackoffRun(n, a, rs) ==
    IF rs = <<>> \/ a >= n THEN [probes |-> 0, sleeps |-> <<>>]
    ELSE LET b == BackoffBody(a, n, Head(rs))
             rest == IF b.brk THEN [probes |-> 0, sleeps |-> <<>>]
                     ELSE BackoffRun(n, a + 1, Tail(rs))
         IN  [probes |-> 1 + rest.probes,
              sleeps |-> SleepSecs(b.out) \o rest.sleeps]

\* the retry loop of example_safe_request from attempt a on, retry_delay
\* being d and the results rs
RECURSIVE RetryRun(_, _, _, _)
RetryRun(n, a, d, rs) ==
    IF rs = <<>> \/ a >= n THEN [probes |-> 0, sleeps |-> <<>>]
    ELSE LET b == RetryBody(a, n, d, Head(rs))
             rest == IF b.brk THEN [probes |-> 0, sleeps |-> <<>>]
                     ELSE RetryRun(n, a + 1, b.delay, Tail(rs))
         IN  [probes |-> 1 + rest.probes,
              sleeps |-> SleepSecs(b.out) \o rest.sleeps]

(***************************************************************************)
(* Properties.                                                             *)
(***************************************************************************)
InRetryLoop == fn \in {"demonstrate_backoff_strategy", "example_safe_request"}

\* max_retries of the running retry loop
MaxAttempts ==
    IF fn = "demonstrate_backoff_strategy" THEN BackoffMaxRetries
                                           ELSE RetryMaxRetries

\* positions of the requests in log
Gets == {k \in DOMAIN log : log[k].ev = "get"}

\* Attempt result r is a success of retry loop f: a response with the
\* status the loop accepts (200 in rate_limit_test, any status below 400
\* through APIClient.get) whose body gives the count the loop prints.
Succeeded(f, r) ==
    /\ r.exc = "none"
    /\ r.body = "full"
    /\ IF f = "demonstrate_backoff_strategy" THEN r.status = 200
                                             ELSE r.status < 400

C2_AtMostMaxAttempts ==
    InRetryLoop =>
      /\ Cardinality(Gets) <= MaxAttempts
      /\ \A k \in Gets : log[k].attempt < MaxAttempts
      /\ fn = "demonstrate_backoff_strategy" => calls <= BackoffMaxRetries
      /\ fn = "example_safe_request" =>
           calls <= NumExamples + RetryMaxRetries

\* C2 witness: all five attempts were used, on an exception, a 500, two 429
\* and a final 200
C2_Witness ==
    /\ fn = "demonstrate_backoff_strategy" /\ pc = "done"
    /\ Cardinality(Gets) = BackoffMaxRetries
    /\ \E k \in Gets : log[k].res.exc # "none"
    /\ \E k \in Gets : log[k].res.status = 500
    /\ \E k \in Gets : log[k].res.status = 429
    /\ \E k \in Gets : log[k].attempt = BackoffMaxRetries - 1
                       /\ Succeeded(fn, log[k].res)

\* Attempt result r is unsuccessful on any reading: no response arrived,
\* or one with a status outside 200-299 (429 is Throttled, the rest Failed).
Unsuccessful(r) == r.exc # "none" \/ r.status \notin 200..299

\* C3: in both retry loops every attempt a that ends Throttled or Failed
\* while attempts remain is followed by a sleep of base * 2^a seconds,
\* after an exception or an unexpected status as after a 429.
C3_SleepAfterEveryFailure ==
    InRetryLoop =>
      \A k \in Gets :
        LET a == log[k].attempt IN
        (Unsuccessful(log[k].res) /\ a < MaxAttempts - 1) =>
          \E j \in DOMAIN log :
            /\ j > k
            /\ log[j].ev = "sleep"
            /\ log[j].attempt = a
            /\ log[j].secs = BackoffBaseDelay * Pow2(a)

\* The last request of the log and the prints that follow it.
LastGet == CHOOSE k \in Gets : \A j \in Gets : j <= k

\* print entry e reports the outcome of the attempt whose result was r
Reports(e, r) ==
    /\ e.ev = "print"
    /\ \/ e.what = "max_retries" /\ r.status = 429
       \/ e.what = "error" /\ r.exc # "none" /\ e.detail = r.exc
       \/ e.what = "all_failed" /\ e.detail # "none"

\* C4: when every attempt of a retry loop was unsuccessful, the loop ends
\* with a report of its last attempt's outcome: a print of the final
\* attempt that names its status or error.
C4_ExhaustedReportsLast ==
    (InRetryLoop /\ pc = "done"
       /\ \A k \in Gets : Unsuccessful(log[k].res)) =>
      /\ Gets # {}
      /\ log[LastGet].attempt = MaxAttempts - 1
      /\ \E j \in DOMAIN log :
           /\ j > LastGet
           /\ log[j].attempt = MaxAttempts - 1
           /\ Reports(log[j], log[LastGet].res)

InBurst == fn = "test_rate_limiting"

\* C5: in test_rate_limiting every request increments exactly one of the
\* three counters, so successful + rate_limited + errors is the number of
\* requests made, and 35 at the end of the run.
C5_CountersSumToProbes ==
    InBurst =>
      /\ successful + rate_limited + errors = calls
      /\ pc \in {"summary", "done"} => calls = BurstCount

\* C6: the burst always fires its full count: no result of a request stops
\* it.  While the loop runs, request i + 1 is the next to be issued; the
\* function gets past the loop only with all 35 requests made, and never
\* leaves it by an exception.
C6_BurstFiresFullCount ==
    InBurst =>
      /\ raised = "none" /\ pc \in {"loop", "summary", "done"}
      /\ pc = "loop" => (calls = i /\ i < BurstCount)
      /\ pc \in {"summary", "done"} => calls = BurstCount

\* C6 witness: a finished burst of 35 requests that met a 429, a failure
\* and, on its last request, an exception
C6_Witness ==
    /\ InBurst /\ pc = "done" /\ calls = BurstCount
    /\ successful > 0 /\ rate_limited > 0 /\ errors > 1
    /\ last.exc = "ConnectionError"

\* C7: the burst tallies a response by its status code alone: 200-299 as
\* successful, 429 as rate_limited, any other status as errors, and each
\* response in exactly one of the three; the body of a 429 plays no part.
C7_StatusAloneDecides ==
    [][(InBurst /\ calls' = calls + 1 /\ last'.exc = "none") =>
         LET st == last'.status
             d == <<successful' - successful, rate_limited' - rate_limited,
                    errors' - errors>>
         IN  /\ st \in 200..299 => d = <<1, 0, 0>>
             /\ st = 429 => d = <<0, 1, 0>>
             /\ st \notin (200..299) \cup {429} => d = <<0, 0, 1>>]_vars

\* C8: no failed request leaves the function that issued it as an
\* exception: burst, exemption test, retry loops and recovery test all
\* carry on after it.
C8_NoExceptionEscapes == pc # "raised" /\ raised = "none"

InExempt == fn = "test_exempt_endpoints"

\* C9: an exempt endpoint is reported as not rate-limited only when each of
\* its 50 requests returned 200; one 429, other status or exception among
\* them makes the report "may be rate-limited"; and the report is printed
\* after exactly 50 requests to the endpoint, none repeated.
C9_ExemptVerdict ==
    [][(InExempt /\ pc = "report") =>
         LET v == verdicts'[Len(verdicts')] IN
         /\ Len(verdicts') = endpoint + 1
         /\ calls = ExemptCount * (endpoint + 1)
         /\ v = "not_rate_limited" => (seen = {"200"} /\ successful = ExemptCount)
         /\ seen \cap {"429", "other", "exception"} # {}
              => v = "may_be_rate_limited"]_vars

\* C9 witness: the test has reported its three endpoints, the first as not
\* rate-limited, the last as possibly rate-limited on one 429 in 50
C9_Witness ==
    /\ InExempt /\ pc = "done" /\ Len(verdicts) = NumExempt
    /\ verdicts[1] = "not_rate_limited"
    /\ verdicts[NumExempt] = "may_be_rate_limited"
    /\ successful = ExemptCount - 1 /\ seen = {"200", "429"}
    /\ calls = NumExempt * ExemptCount

InRecovery == fn = "test_rate_limit_recovery"

\* C10: after the wait the recovery test issues exactly one request, reports
\* the reset iff it returned 200 and "still rate limited" iff it returned
\* 429, and issues no request after it.
C10_RecoveryVerdict ==
    (InRecovery /\ pc = "done" /\ Len(verdicts) = 2) =>
      /\ calls = BurstCount + 2
      /\ log[Len(log)].ev = "get"
      /\ verdicts[2] = "reset" <=> last.status = 200
      /\ verdicts[2] = "still_limited" <=> last.status = 429

\* positions of the sleeps in log
Sleeps == {k \in DOMAIN log : log[k].ev = "sleep"}

\* the sleeps, in seconds, that base 1 and multiplier 2 give after attempts
\* 0, 1, 2, 3
DoublingDelays == <<1, 2, 4, 8>>

\* C15: in both retry loops the sleep after attempt 0 is the base delay of
\* 1 s, the sleep after attempt a is 1, 2, 4, 8 s for a = 0, 1, 2, 3, and
\* the sleeps of one run are strictly increasing in the order they happen.
C15_DelaysDouble ==
    InRetryLoop =>
      /\ \A k \in Sleeps :
           /\ log[k].attempt + 1 \in DOMAIN DoublingDelays
           /\ log[k].secs = DoublingDelays[log[k].attempt + 1]
           /\ log[k].attempt = 0 => log[k].secs = BackoffBaseDelay
      /\ \A j, k \in Sleeps : j < k => log[j].secs < log[k].secs

\* C15 witness: demonstrate_backoff_strategy was throttled on all five
\* attempts and has slept 1, 2, 4 and 8 seconds
C15_Witness ==
    /\ fn = "demonstrate_backoff_strategy" /\ pc = "done"
    /\ Cardinality(Sleeps) = BackoffMaxRetries - 1
    /\ \E k \in Sleeps : log[k].attempt = 3 /\ log[k].secs = 8

\* C17: in the burst a sleep of the inter-request delay follows every
\* request that has a successor, whatever the request's result: whenever
\* the loop is about to issue its next request, the previous iteration has
\* slept.
C17_SleepBetweenProbes ==
    (InBurst /\ pc = "loop" /\ calls > 0) => paced

\* C20: the exemption test sends exactly 50 requests to each of its three
\* endpoints, one endpoint after the other in list order, without a sleep;
\* no result of a request shortens an endpoint's 50 or skips an endpoint.
C20_ExemptFullBursts ==
    InExempt =>
      /\ raised = "none" /\ pc \in {"loop", "report", "done"}
      /\ Sleeps = {} /\ log = <<>>
      /\ pc = "loop" => (/\ endpoint < NumExempt /\ i < ExemptCount
                         /\ calls = ExemptCount * endpoint + i)
      /\ pc = "report" => (/\ endpoint < NumExempt
                           /\ calls = ExemptCount * (endpoint + 1))
      /\ pc = "done" => (/\ endpoint = NumExempt
                         /\ calls = ExemptCount * NumExempt)
      /\ Len(verdicts) = endpoint

\* C20 witness: the test is in the burst of its third endpoint after the
\* second endpoint's burst met a 429 and was reported as possibly
\* rate-limited, and the current burst has met an exception
C20_Witness ==
    /\ InExempt /\ pc = "loop" /\ endpoint = NumExempt - 1
    /\ calls > ExemptCount * (NumExempt - 1)
    /\ verdicts = <<"not_rate_limited", "may_be_rate_limited">>
    /\ "exception" \in seen

\* seconds slept by the entries of a log
RECURSIVE SumSecs(_)
SumSecs(l) == IF l = <<>> THEN 0 ELSE Head(l).secs + SumSecs(Tail(l))

\* C18: the recovery test goes on to its wait whenever one of its 35
\* saturating requests was answered 429, and ends as "not rate limited
\* initially" only when none of them was.
C18_SaturationDecides ==
    (InRecovery /\ Len(verdicts) >= 1) =>
      /\ "429" \in seen => verdicts[1] = "limited_as_expected"
      /\ verdicts[1] = "not_limited_initially" => "429" \notin seen

\* C19 as stated: when the wait is over the recovery test has slept 60
\* seconds in total and has sent no request since the one that showed the
\* throttle.
C19_SleepsSixty ==
    (InRecovery /\ pc = "verify") =>
      /\ SumSecs(log) = 60
      /\ calls = BurstCount + 1

\* C19: between the request that showed the throttle and the verifying
\* request the recovery test sleeps 65 seconds in total, in steps of 5
\* seconds, and sends no request: during the wait and at its end the
\* request count stays at 36 and the log holds that request followed by
\* sleeps only.
C19_SleepsSixtyFive ==
    (InRecovery /\ pc \in {"wait", "verify"}) =>
      /\ calls = BurstCount + 1
      /\ Gets = {1}
      /\ \A k \in DOMAIN log : k > 1 => log[k] = Sleep(0, 5)
      /\ pc = "wait" => SumSecs(log) = 65 - remaining
      /\ pc = "verify" => SumSecs(log) = 65

\* C19 witness: the wait is over after thirteen sleeps and the verifying
\* request is next
C19_Witness ==
    /\ InRecovery /\ pc = "verify"
    /\ Cardinality(Sleeps) = 13
    /\ last.status = 429

\* C16: a retry loop run with max_retries = N never sleeps after its final
\* attempt: every sleep follows an attempt before the last, so at most N-1
\* sleeps occur; with N = 1 the loop issues exactly one request and never
\* sleeps, whatever the request's result.
C16_NoSleepAfterFinal ==
    (InRetryLoop /\ pc \in {"loop", "done"}) =>
      /\ Cardinality(Sleeps) <= max_retries - 1
      /\ \A k \in Sleeps : log[k].attempt < max_retries - 1
      /\ pc = "done" => log[Len(log)].ev # "sleep"
      /\ max_retries = 1 =>
           /\ Sleeps = {}
           /\ pc = "loop" => Gets = {}
           /\ pc = "done" => Cardinality(Gets) = 1

\* C16 witness: demonstrate_backoff_strategy with max_retries = 1 has ended
\* after one request that was answered 429
C16_Witness ==
    /\ fn = "demonstrate_backoff_strategy" /\ pc = "done"
    /\ max_retries = 1
    /\ Gets = {1} /\ last.status = 429

\* C11: main's overall result is a pass iff every phase's check held: when
\* main reaches its closing "All tests completed!" no phase has reported a
\* failed check (the burst saw a 429, no exempt endpoint was reported as
\* possibly rate-limited); a failed check makes the run end as a failure.
C11_PassIffAssertionsHeld ==
    mainpc = "completed" => failures = {}

\* C12: against a service that answers 429 beyond 30 requests a minute and
\* never fails in transport, the 35-request burst ends with rate_limited > 0
\* (at least the five requests after the 30th are answered 429), and
\* whatever the service, the burst test prints "working" exactly when
\* rate_limited > 0.
C12_BurstMeetsLimit ==
    (InBurst /\ pc \in {"summary", "done"}) =>
      /\ remote = "soft_limit" =>
           /\ rate_limited > 0
           /\ rate_limited >= BurstCount - SoftLimit
           /\ successful + rate_limited = BurstCount
      /\ pc = "done" =>
           /\ Len(verdicts) = 1
           /\ verdicts[1] = "working" <=> rate_limited > 0
           /\ verdicts[1] = "not_detected" <=> rate_limited = 0

\* C12 witness: the burst has ended against a limiting service that had
\* seen no request before: 30 requests answered 200, five answered 429,
\* verdict "working"
C12_Witness ==
    /\ InBurst /\ pc = "done"
    /\ remote = "soft_limit" /\ prior = 0
    /\ successful = SoftLimit /\ rate_limited = BurstCount - SoftLimit
    /\ verdicts = <<"working">>

\* C13: against a service enforcing 30 requests per 60 seconds the recovery
\* test finds itself throttled after its 35 requests, waits, and its one
\* request after the wait is sent when the service has been quiet for a
\* whole window, is answered 200, and is reported as "rate limit has reset".
C13_RecoversAfterWait ==
    (InRecovery /\ remote = "soft_limit") =>
      /\ pc = "verify" => quiet >= Window
      /\ pc = "done" =>
           /\ verdicts = <<"limited_as_expected", "reset">>
           /\ last.status = 200
           /\ calls = BurstCount + 2

\* C13 witness: the recovery test has ended with the reset reported after
\* a request that was answered 200
C13_Witness ==
    /\ InRecovery /\ remote = "soft_limit" /\ pc = "done"
    /\ "429" \in seen /\ "200" \in seen
    /\ last.status = 200
    /\ Len(verdicts) = 2 /\ verdicts[2] = "reset"

\* C14: test_exempt_endpoints run twice in succession against a service
\* that answers the exempt endpoints without throttling reports every
\* endpoint as not rate-limited in both runs, so the runs' verdicts are the
\* same; each endpoint's count starts at 0 (inside a burst it equals the
\* number of requests sent to that endpoint), nothing being carried over
\* from the endpoint or the run before.
C14_ExemptRunsAgree ==
    /\ \A j, k \in DOMAIN runs : runs[j] = runs[k]
    /\ \A k \in DOMAIN runs :
         runs[k] = <<"not_rate_limited", "not_rate_limited",
                     "not_rate_limited">>
    /\ InExempt =>
         /\ \A k \in DOMAIN verdicts : verdicts[k] = "not_rate_limited"
         /\ pc = "loop" => successful = i
         /\ pc = "report" => successful = ExemptCount

\* C14 witness: the second run is reporting its last endpoint after 150
\* requests, the first run having ended with three passing verdicts
C14_Witness ==
    /\ Len(runs) = 1 /\ Len(runs[1]) = NumExempt
    /\ InExempt /\ pc = "done"
    /\ calls = ExemptCount * NumExempt
    /\ verdicts = runs[1]

\* the function main is running in each of its phases
PhaseFunction ==
    [burst |-> "test_rate_limiting", exempt |-> "test_exempt_endpoints",
     backoff |-> "demonstrate_backoff_strategy"]

\* the steps main's position may take
MainOrder ==
    { <<"none", "burst">>, <<"burst", "exempt">>, <<"exempt", "backoff">>,
      <<"backoff", "completed">>, <<"completed", "none">> }

\* C24: for every sequence of responses and transport exceptions main runs
\* the burst test, the exemption test and the backoff demonstration in this
\* order and then reaches "All tests completed!": no exception leaves a
\* phase, main's except clauses are never entered, and the recovery test is
\* never run.
C24_MainCompletes ==
    /\ [](/\ mainpc # "error"
          /\ mainpc # "none" => (pc # "raised" /\ raised = "none")
          /\ mainpc \in MainPhases => fn = PhaseFunction[mainpc]
          /\ mainpc = "completed" => fn = "idle")
    /\ [][mainpc' # mainpc => <<mainpc, mainpc'>> \in MainOrder]_vars

\* C24 witness: main is in its last phase, whose fifth attempt raised a
\* transport exception that the loop absorbed, after both earlier phases
\* had reported a failed check
C24_Witness ==
    /\ mainpc = "backoff" /\ pc = "done"
    /\ attempt = BackoffMaxRetries - 1 /\ last.exc # "none"
    /\ failures = {"burst", "exempt"}

\* the results of the requests in log, in order
Answers ==
    LET g == SelectSeq(log, LAMBDA e : e.ev = "get")
    IN  [k \in 1..Len(g) |-> g[k].res]

\* every request of the running retry loop was answered 429
All429 == \A k \in Gets : log[k].res.exc = "none" /\ log[k].res.status = 429

\* C23: with the same base delay (1 s) and the same max_retries, when every
\* attempt is answered 429 the loop of demonstrate_backoff_strategy
\* (base * 2^attempt) and the loop of example_safe_request (retry_delay
\* doubled after each sleep) issue the same number of requests and sleep
\* the same durations in the same order: whichever loop is running, its
\* requests and sleeps so far are those of both loops on the same answers,
\* and a finished run has issued max_retries requests.
C23_BackoffLoopsAgree ==
    (InRetryLoop /\ pc \in {"loop", "done"} /\ All429) =>
      LET run == [probes |-> Cardinality(Gets), sleeps |-> SleepSecs(log)]
      IN  /\ BackoffBaseDelay = RetryInitialDelay
          /\ BackoffRun(max_retries, 0, Answers) = run
          /\ RetryRun(max_retries, 0, RetryInitialDelay, Answers) = run
          /\ pc = "done" => run.probes = max_retries

\* C23 witness: the loop of example_safe_request has ended after three
\* attempts answered 429 and sleeps of 1 and 2 seconds
C23_Witness ==
    /\ fn = "example_safe_request" /\ pc = "done"
    /\ max_retries = RetryMaxRetries
    /\ Cardinality(Gets) = RetryMaxRetries /\ All429
    /\ SleepSecs(log) = <<1, 2>>

\* number of records of a sequence of results with the flag p
RECURSIVE Flagged(_, _)
Flagged(l, p) ==
    IF l = <<>> THEN 0
    ELSE (IF Head(l).passed = p THEN 1 ELSE 0) + Flagged(Tail(l), p)

\* C21: after any sequence of assert_equals, assert_true, assert_status_code
\* and assert_json_field calls passed + failed = len(results), passed is the
\* number of records flagged passed and failed the number flagged failed,
\* and every record's flag says whether its actual equals its expected;
\* each call appends one record and adds one to one counter.
C21_CountersMatchResults ==
    /\ [](/\ passed + failed = Len(results)
          /\ SummaryTotal = Len(results)
          /\ passed = Flagged(results, TRUE)
          /\ failed = Flagged(results, FALSE)
          /\ \A k \in DOMAIN results :
               results[k].passed = PyEq(results[k].actual,
                                        results[k].expected))
    /\ [][<<passed, failed, results>>' # <<passed, failed, results>> =>
            /\ Len(results') = Len(results) + 1
            /\ SubSeq(results', 1, Len(results)) = results
            /\ (passed' + failed') = (passed + failed) + 1
            /\ passed' = passed + (IF results'[Len(results')].passed
                                     THEN 1 ELSE 0)]_vars

\* C21 witness: three calls were made, the latest an assert_json_field for
\* a missing field, which left one failing record (False against True);
\* one record passed because True == 1
C21_Witness ==
    /\ Len(results) = 3 /\ passed = 1 /\ failed = 2
    /\ results[3] = [passed |-> FALSE, actual |-> PyBool(FALSE),
                     expected |-> PyBool(TRUE)]
    /\ \E k \in DOMAIN results :
         /\ results[k].passed
         /\ results[k].actual.kind # results[k].expected.kind

\* C22: after any sequence of fetch_users, fetch_products and fetch_orders
\* calls stats.requests = stats.successful + stats.failed; a fetch that
\* failed (it returned [] from its except clause) left successful and
\* records_processed as they were, and a fetch that succeeded added one to
\* successful and the number of records it returned to records_processed.
C22_StatsBalance ==
    /\ stats.requests = stats.successful + stats.failed
    /\ returned.outcome = "empty" =>
         /\ stats.successful = returned.before.successful
         /\ stats.records_processed = returned.before.records_processed
    /\ returned.outcome = "data" =>
         /\ stats.successful = returned.before.successful + 1
         /\ stats.records_processed =
              returned.before.records_processed + returned.records

NextBurst == StartBurst \/ BurstProbe \/ BurstSummary \/ Return

NextExempt == StartExempt \/ ExemptProbe \/ ExemptReport \/ Return

NextBackoff ==
    \/ StartBackoff \/ BackoffAttempt
    \/ StartSafeRequest \/ ExampleRequest \/ RetryAttempt
    \/ Return

NextRecovery ==
    \/ StartRecovery \/ RecoverySaturate \/ RecoveryCheck
    \/ RecoveryWaitStep \/ RecoveryVerify
    \/ Return

\* the retry loops with max_retries drawn from 1 up to the program's value
NextRetryAny ==
    \/ StartBackoffAny \/ BackoffAttempt
    \/ StartSafeRequest \/ ExampleRequestAny \/ RetryAttempt
    \/ Return

\* the burst test and the recovery test against the service
NextRemote ==
    \/ StartBurstRemote \/ BurstProbeRemote \/ BurstSummary
    \/ StartRecoveryRemote \/ SaturateRemote \/ CheckRemote
    \/ WaitRemote \/ VerifyRemote
    \/ ReturnRemote

\* test_exempt_endpoints run repeatedly against the service
NextExemptTwice ==
    \/ StartExemptRun \/ ExemptProbeRemote \/ ExemptReport
    \/ ExemptRunEnds

\* an IntegrationTest object used by any sequence of calls
NextIntegration ==
    \/ AssertEquals \/ AssertTrue \/ AssertStatusCode \/ AssertJsonField

\* a DataPipeline object used by any sequence of fetches
NextPipeline == fetch_users \/ fetch_products \/ fetch_orders

\* main() of rate_limit_test.py
NextMain ==
    \/ StartMain \/ MainNext \/ MainExit
    \/ BurstProbe \/ BurstSummary
    \/ ExemptProbe \/ ExemptReport
    \/ BackoffAttempt

Next == NextBurst \/ NextExempt \/ NextBackoff \/ NextRecovery

\* every function of the two scripts, called in any order
Spec == Init /\ [][Next]_vars

\* test_rate_limiting alone
SpecBurst == Init /\ [][NextBurst]_vars

\* test_exempt_endpoints alone
SpecExempt == Init /\ [][NextExempt]_vars

\* the two retry loops alone
SpecBackoff == Init /\ [][NextBackoff]_vars

\* the two retry loops alone, max_retries being any value from 1 up to the
\* program's
SpecRetryAny == Init /\ [][NextRetryAny]_vars

\* test_rate_limiting and test_rate_limit_recovery against the service
SpecRemote == Init /\ [][NextRemote]_vars

\* test_exempt_endpoints twice in succession against the service
SpecExemptTwice == Init /\ [][NextExemptTwice]_vars

\* an IntegrationTest object alone
SpecIntegration == Init /\ [][NextIntegration]_vars

\* a DataPipeline object alone
SpecPipeline == Init /\ [][NextPipeline]_vars

\* main() alone
SpecMain == Init /\ [][NextMain]_vars

\* test_rate_limit_recovery alone
SpecRecovery == Init /\ [][NextRecovery]_vars

====
